---- MODULE Spec2Model ----
(***************************************************************************)
(* A model of the realtime session hook useWebRTCAudioSession              *)
(* (src/app/api/generate-image/route.ts, lines 177-920): the conversation  *)
(* log, the speech-turn pipeline (recorder chunks, settling timer,         *)
(* transcription request), tool dispatch, text sending and the session     *)
(* life cycle (startSession / stopSession).                                *)
(*                                                                         *)
(* Strings that the code concatenates are sequences of tokens: "" is <<>>, *)
(* a + b is a \o b.  Objects created by the k-th startSession call (media  *)
(* stream, audio context, peer connection, data channel, recorder) are     *)
(* named by k; a ref that holds NULL is null.                              *)
(***************************************************************************)
EXTENDS Integers, Sequences, FiniteSets, TLC

\* ------------------------------------------------------------------ bounds
\* The inputs of a run: calls of the hook's operations by the UI, messages the
\* remote endpoint sends, dataavailable events of a running recorder. What the
\* program does in reply (awaits settling, timers, requests returning) is not
\* counted.
MaxInputs == 3    \* Spec: the life cycle, from the first render
TalkInputs == 6   \* SpecTalk: one established session, speech and transcripts
ToolInputs == 5   \* SpecTools: one established session, tool calls
RestartInputs == 3  \* SpecRestart: a session stopped and started again
FaultInputs == 3  \* SpecFaults: one established session, a release that throws
LiveInputs == 4   \* SpecLive: speech turns under fair timers and requests
MaxRequests == 2  \* SpecRoute: POSTs to /api/transcribe-audio in flight at once

NULL == 0

\* ------------------------------------------------------------ input values
Deltas == {"Hel", "lo"}
Typed == {"hi"}
Transcripts == {"hello"}
CallIds == {"call_1", "call_2"}
RegisteredTool == "getCurrentTime"
UnknownTool == "notATool"
\* functionRegistry.current is a plain object literal: a lookup by a name that
\* Object.prototype defines finds the inherited function.
InheritedTool == "toString"
ToolNames == {RegisteredTool, UnknownTool, InheritedTool}
IgnoredTags == {"input_audio_buffer.committed",
                "conversation.item.input_audio_transcription",
                "conversation.item.input_audio_transcription.completed",
                "session.created"}

VARIABLES
  \* React state of the hook
  status, isSessionActive, isMicMuted, msgs, conversation, currentVolume,
  \* refs of the hook
  audioContextRef, audioStreamRef, peerConnectionRef, dataChannelRef,
  mediaRecorderRef, functionRegistry, ephemeralUserMessageIdRef, audioChunksRef,
  \* browser objects, by the startSession call that created them
  stream, trackEnabled, ctx, conn, chan, rec, sent,
  \* suspended operations
  call, timers, pendingTx, pendingTools,
  \* the next fresh uuid, the next chunk payload, the inputs still to come
  nextId, nextChunk, budget,
  \* history: the last operation, the current run of assistant deltas, the
  \* current speech turn
  lastOp, run, turn,
  \* the startSession calls that were suspended at an await when stopSession ran
  stoppedWhile,
  \* inbound audio: the analyser and the volume timer the hook holds, and the
  \* audio context and interval each connection's ontrack callback created
  analyserRef, volumeIntervalRef, inboundCtx, interval,
  \* the transcription route: each POST's position and locals, and the temp
  \* files that exist in os.tmpdir()
  req, files

stateVars == <<status, isSessionActive, isMicMuted, msgs, conversation, currentVolume>>
refVars == <<audioContextRef, audioStreamRef, peerConnectionRef, dataChannelRef,
             mediaRecorderRef, ephemeralUserMessageIdRef, audioChunksRef>>
objVars == <<stream, trackEnabled, ctx, conn, chan, rec, sent>>
pendVars == <<call, timers, pendingTx, pendingTools>>
cntVars == <<nextId, nextChunk, budget>>
histVars == <<lastOp, run, turn, stoppedWhile>>
volVars == <<analyserRef, volumeIntervalRef, inboundCtx, interval>>
routeVars == <<req, files>>
vars == <<stateVars, refVars, functionRegistry, objVars, pendVars, cntVars, histVars,
          volVars, routeVars>>

\* the startSession calls made so far
Calls == DOMAIN call

\* ------------------------------------------------------- conversation log
Last(s) == s[Len(s)]

\* { ...msg, ...partial }
Merge(msg, partial) ==
  [k \in DOMAIN msg \cup DOMAIN partial |->
     IF k \in DOMAIN partial THEN partial[k] ELSE msg[k]]

NewEphemeral(id) ==
  [id |-> id, role |-> "user", text |-> <<>>, isFinal |-> FALSE, status |-> "speaking"]

NewAssistant(id, delta) ==
  [id |-> id, role |-> "assistant", text |-> <<delta>>, isFinal |-> FALSE,
   status |-> "undefined"]

NewTyped(id, text) ==
  [id |-> id, role |-> "user", text |-> <<text>>, isFinal |-> TRUE, status |-> "final"]

\* variant: an entry is appended even when the ref already names one
GetOrCreateLogAlwaysCreates(conv, ref, id) ==
  Append(conv, NewEphemeral(IF ref = NULL THEN id ELSE ref))

\* getOrCreateEphemeralUserId: the log after the call
GetOrCreateLog(conv, ref, id) ==
  IF ref = NULL THEN Append(conv, NewEphemeral(id)) ELSE conv

\* variant: a fresh id is taken on every call
GetOrCreateRefAlwaysNew(ref, id) == id

\* getOrCreateEphemeralUserId: the ref after the call
GetOrCreateRef(ref, id) == IF ref = NULL THEN id ELSE ref

\* the partial of case "input_audio_buffer.speech_started"
\* variant: the partial also writes isFinal: false
SpeakingPartialResetsFinal ==
  [status |-> "speaking", text |-> <<"Listening...">>, isFinal |-> FALSE]

SpeakingPartial == [status |-> "speaking", text |-> <<"Listening...">>]

\* the partial of case "input_audio_buffer.speech_stopped"
ProcessingPartial == [status |-> "processing", text |-> <<"Processing speech...">>]

\* the partial written when the transcription returned
FinalPartial(transcript) ==
  [text |-> <<transcript>>, isFinal |-> TRUE, status |-> "final"]

\* variant: the partial is not written
UpdateEphemeralUserMessageSkipped(conv, ref, partial) == conv

\* updateEphemeralUserMessage(partial)
UpdateEphemeralUserMessage(conv, ref, partial) ==
  IF ref = NULL THEN conv
  ELSE [i \in 1..Len(conv) |->
          IF conv[i].id = ref THEN Merge(conv[i], partial) ELSE conv[i]]

\* variant: every delta starts a new entry
AppendDeltaAlwaysNew(conv, id, delta) == Append(conv, NewAssistant(id, delta))

\* case "response.audio_transcript.delta": the updater passed to setConversation
AppendDelta(conv, id, delta) ==
  IF Len(conv) > 0 /\ Last(conv).role = "assistant" /\ ~Last(conv).isFinal
  THEN [conv EXCEPT ![Len(conv)] = Merge(@, [text |-> @.text \o <<delta>>])]
  ELSE Append(conv, NewAssistant(id, delta))

\* case "response.audio_transcript.done"
MarkTailFinal(conv) ==
  IF Len(conv) = 0 THEN conv
  ELSE [conv EXCEPT ![Len(conv)] = Merge(@, [isFinal |-> TRUE])]

\* ------------------------------------------------------ outbound messages
SessionUpdate == <<"session.update">>
ItemCreate(text) == <<"conversation.item.create", text>>
ResponseCreate == <<"response.create">>
\* JSON.stringify(result)
Stringify(result) == <<"json", result>>
\* variant: the output does not carry the call_id of the event
FunctionCallOutputAnonymous(callId, result) ==
  <<"function_call_output", "", Stringify(result)>>

FunctionCallOutput(callId, result) == <<"function_call_output", callId, Stringify(result)>>

\* variant: the readyState test is missing
ChannelReadyIgnoresState(ref) == ref # NULL

\* dataChannelRef.current && dataChannelRef.current.readyState === "open"
ChannelReady(ref) == ref # NULL /\ chan[ref] = "open"

\* variant: the two messages are sent in the other order
SendTwoReversed(c, a, b) == [sent EXCEPT ![c] = @ \o <<b, a>>]

\* dataChannel.send(a); dataChannel.send(b) on channel c
SendTwo(c, a, b) == [sent EXCEPT ![c] = @ \o <<a, b>>]

\* ------------------------------------------------------------- recorder
\* MediaRecorder.state: a recorder whose stop() has run is inactive although
\* its last dataavailable event is still queued ("flushing")
RecorderState(c) == IF rec[c] = "recording" THEN "recording" ELSE "inactive"

\* mediaRecorderRef.current && mediaRecorderRef.current.state === "recording"
RecorderRecording == mediaRecorderRef # NULL /\ RecorderState(mediaRecorderRef) = "recording"

\* variant: the buffer is not reset
ChunksKeptOnSpeechStarted(chunks) == chunks

\* audioChunksRef.current = [] in case "input_audio_buffer.speech_started"
ChunksOnSpeechStarted(chunks) == <<>>

\* variant: the length test is missing
HasAudioAlways(chunks) == TRUE

\* if (audioChunksRef.current.length > 0)
HasAudio(chunks) == Len(chunks) > 0

\* new Blob(audioChunksRef.current, ...): the chunks, concatenated in order
Consolidate(chunks) == chunks

BlobSize(blob) == Len(blob)

\* audioChunksRef.current = [] after the transcription returned
ChunksAfterTranscription(chunks) == <<>>

\* ------------------------------------------------------- transcription
NoSpeech == "No speech detected"
Failed == "Transcription failed. Please try again."
TxOutcomes == {"text", "no_text", "http_error", "network_error"}

\* variant: the error of a failed request reaches the caller
TranscriptOfLeaksError(outcome, text) ==
  CASE outcome = "text" -> text
    [] outcome = "no_text" -> NoSpeech
    [] OTHER -> "Failed to transcribe audio"

\* transcribeAudioWithGroq: the string it returns for a response
TranscriptOf(outcome, text) ==
  CASE outcome = "text" -> text
    [] outcome = "no_text" -> NoSpeech
    [] OTHER -> Failed

\* ------------------------------------------------------------ registry
\* functionRegistry.current[msg.name]
Lookup(registry, name) ==
  IF name \in registry THEN "registered"
  ELSE IF name = InheritedTool THEN "inherited"
  ELSE "undefined"

\* --------------------------------------------------------------- history
NoRun == [live |-> FALSE, base |-> <<>>, text |-> <<>>, done |-> FALSE]
NoTurn == [phase |-> "none", chunks |-> <<>>, blob |-> <<>>, n |-> 0]

OpOn(name, info, arg) == lastOp' = [op |-> name, info |-> info, arg |-> arg]
Op(name, info) == OpOn(name, info, "")

\* a run of assistant deltas ends with any other change of the log
RunBroken == run' = IF conversation' = conversation THEN run ELSE NoRun

\* ---------------------------------------------- transcription route
\* POST of src/app/api/transcribe-audio/route.ts. Each request takes its own
\* Date.now() timestamp; the requests modelled get different ones.
Requests == 1..MaxRequests

\* path.join(tempDir, `audio-${timestamp}.${fileExtension}`)
OriginalPath(r) == <<"audio", r>>
\* path.join(tempDir, `converted-${timestamp}.mp3`)
ConvertedPath(r) == <<"converted", r>>

\* let tempFilePath = null; let originalFilePath = null
NoPath == <<>>

NoResponse == [status |-> 0, error |-> ""]
NoRequest ==
  [pc |-> "idle", originalFilePath |-> NoPath, tempFilePath |-> NoPath,
   response |-> NoResponse]

\* NextResponse.json({ error }, { status })
ErrorResponse(code, error) == [status |-> code, error |-> error]
\* NextResponse.json(transcriptionData)
OkResponse == [status |-> 200, error |-> ""]

\* unlink(path): the file is gone afterwards (a failing unlink is only logged)
Unlink(fs, path) == fs \ {path}

\* the two guarded unlink calls: the original file if originalFilePath is
\* set, the converted one if tempFilePath is set and differs from it
CleanUp(fs, orig, temp) ==
  LET a == IF orig # NoPath THEN Unlink(fs, orig) ELSE fs
  IN IF temp # NoPath /\ temp # orig THEN Unlink(a, temp) ELSE a

\* what execAsync(ffmpegCommand) can do: convert, fail before it opened its
\* output, or fail after it created the output file
FfmpegOutcomes == {"converted", "fails", "fails_with_output"}

\* what execAsync(curlCommand) can do: resolve with a JSON body with or
\* without text, with an empty body, with a body that is not JSON, or reject
\* (curl exits non-zero: no route to the host, a timeout)
CurlOutcomes == {"json_text", "json_no_text", "empty", "unparsable", "rejects"}

\* ----------------------------------------------------------------- Init
\* The hook after its first render: useState / useRef initial values, no
\* startSession call made, no browser object created.
Init ==
  /\ status = "" /\ isSessionActive = FALSE /\ isMicMuted = FALSE
  /\ msgs = <<>> /\ conversation = <<>> /\ currentVolume = 0
  /\ audioContextRef = NULL /\ audioStreamRef = NULL /\ peerConnectionRef = NULL
  /\ dataChannelRef = NULL /\ mediaRecorderRef = NULL
  /\ functionRegistry = {}
  /\ ephemeralUserMessageIdRef = NULL /\ audioChunksRef = <<>>
  /\ stream = <<>> /\ trackEnabled = <<>> /\ ctx = <<>> /\ conn = <<>>
  /\ chan = <<>> /\ rec = <<>> /\ sent = <<>> /\ call = <<>>
  /\ timers = 0 /\ pendingTx = <<>> /\ pendingTools = <<>>
  /\ nextId = 1 /\ nextChunk = 1
  /\ budget = MaxInputs
  /\ lastOp = [op |-> "init", info |-> "", arg |-> ""]
  /\ run = NoRun /\ turn = NoTurn /\ stoppedWhile = {}
  /\ req = [r \in Requests |-> NoRequest] /\ files = {}
  /\ analyserRef = NULL /\ volumeIntervalRef = NULL
  /\ inboundCtx = <<>> /\ interval = <<>>

\* ----------------------------------------------- side-channel messages
\* dataChannel.onmessage fires on a channel that is open
Deliverable == budget > 0 /\ \E c \in Calls : chan[c] = "open"

Delivered == budget' = budget - 1

\* variant: the message is not appended
LogRawDrops(m) == msgs' = msgs

\* setMsgs((prevMsgs) => [...prevMsgs, msg])
LogRaw(m) == msgs' = Append(msgs, m)

\* case "input_audio_buffer.speech_started"
SpeechStarted ==
  /\ Deliverable
  /\ Delivered
  /\ LET ref == GetOrCreateRef(ephemeralUserMessageIdRef, nextId)
         log == GetOrCreateLog(conversation, ephemeralUserMessageIdRef, nextId)
     IN /\ ephemeralUserMessageIdRef' = ref
        /\ conversation' = UpdateEphemeralUserMessage(log, ref, SpeakingPartial)
  /\ nextId' = IF ephemeralUserMessageIdRef = NULL THEN nextId + 1 ELSE nextId
  /\ audioChunksRef' = ChunksOnSpeechStarted(audioChunksRef)
  /\ LogRaw(<<"input_audio_buffer.speech_started">>)
  /\ Op("speech_started", IF ephemeralUserMessageIdRef = NULL THEN "created" ELSE "reused")
  /\ RunBroken
  /\ UNCHANGED stoppedWhile
  /\ turn' = IF timers = 0 /\ pendingTx = <<>> /\ RecorderRecording
             THEN [phase |-> "started", chunks |-> <<>>, blob |-> <<>>, n |-> 0]
             ELSE NoTurn
  /\ UNCHANGED <<status, isSessionActive, isMicMuted, currentVolume>>
  /\ UNCHANGED <<audioContextRef, audioStreamRef, peerConnectionRef, dataChannelRef,
                 mediaRecorderRef, functionRegistry>>
  /\ UNCHANGED <<objVars, pendVars, nextChunk>>
  /\ UNCHANGED <<volVars, routeVars>>

\* case "input_audio_buffer.speech_stopped": up to the setTimeout call
SpeechStopped ==
  /\ Deliverable
  /\ Delivered
  /\ conversation' = UpdateEphemeralUserMessage(conversation, ephemeralUserMessageIdRef,
                       ProcessingPartial)
  /\ timers' = IF RecorderRecording THEN timers + 1 ELSE timers
  /\ LogRaw(<<"input_audio_buffer.speech_stopped">>)
  /\ Op("speech_stopped", IF RecorderRecording THEN "timer" ELSE "no_timer")
  /\ RunBroken
  /\ UNCHANGED stoppedWhile
  /\ turn' = IF turn.phase = "started" /\ Len(turn.chunks) >= 1 /\ RecorderRecording
             THEN [turn EXCEPT !.phase = "stopped"]
             ELSE NoTurn
  /\ UNCHANGED <<status, isSessionActive, isMicMuted, currentVolume>>
  /\ UNCHANGED <<refVars, functionRegistry, objVars, call, pendingTx, pendingTools>>
  /\ UNCHANGED <<nextId, nextChunk>>
  /\ UNCHANGED <<volVars, routeVars>>

\* the continuation of the setTimeout callback after transcribeAudioWithGroq
\* returned `transcript`
FinishTurn(transcript) ==
  /\ conversation' = UpdateEphemeralUserMessage(conversation, ephemeralUserMessageIdRef,
                       FinalPartial(transcript))
  /\ ephemeralUserMessageIdRef' = NULL
  /\ audioChunksRef' = ChunksAfterTranscription(audioChunksRef)
  /\ sent' = IF ChannelReady(dataChannelRef)
             THEN SendTwo(dataChannelRef, ItemCreate(transcript), ResponseCreate)
             ELSE sent

\* the setTimeout callback of speech_stopped, 300 ms later: up to the fetch of
\* transcribeAudioWithGroq
SettleTimer ==
  /\ timers > 0
  /\ timers' = timers - 1
  /\ IF HasAudio(audioChunksRef)
     THEN LET blob == Consolidate(audioChunksRef)
          IN IF BlobSize(blob) = 0
             THEN /\ FinishTurn(NoSpeech)
                  /\ Op("settle", "empty_blob")
                  /\ UNCHANGED pendingTx
             ELSE /\ pendingTx' = Append(pendingTx, blob)
                  /\ Op("settle", "request")
                  /\ UNCHANGED <<conversation, ephemeralUserMessageIdRef,
                                 audioChunksRef, sent>>
     ELSE /\ Op("settle", "empty_buffer")
          /\ UNCHANGED <<conversation, ephemeralUserMessageIdRef, audioChunksRef,
                         sent, pendingTx>>
  /\ RunBroken
  /\ UNCHANGED stoppedWhile
  /\ turn' = IF turn.phase = "stopped"
             THEN [turn EXCEPT !.phase = "fired",
                               !.n = Len(pendingTx') - Len(pendingTx),
                               !.blob = IF pendingTx' = pendingTx THEN <<>>
                                        ELSE Last(pendingTx')]
             ELSE NoTurn
  /\ UNCHANGED <<status, isSessionActive, isMicMuted, msgs, currentVolume>>
  /\ UNCHANGED <<audioContextRef, audioStreamRef, peerConnectionRef, dataChannelRef,
                 mediaRecorderRef, functionRegistry>>
  /\ UNCHANGED <<stream, trackEnabled, ctx, conn, chan, rec, call, pendingTools, cntVars>>
  /\ UNCHANGED <<volVars, routeVars>>

RemoveAt(s, k) == [i \in 1..(Len(s) - 1) |-> IF i < k THEN s[i] ELSE s[i + 1]]

\* the transcription request k returns: the rest of transcribeAudioWithGroq
\* and of the setTimeout callback
TranscriptionDone ==
  \E k \in 1..Len(pendingTx), outcome \in TxOutcomes, text \in Transcripts :
    /\ pendingTx' = RemoveAt(pendingTx, k)
    /\ FinishTurn(TranscriptOf(outcome, text))
    /\ Op("transcribed", outcome)
    /\ RunBroken
    /\ UNCHANGED stoppedWhile
    /\ turn' = NoTurn
    /\ UNCHANGED <<status, isSessionActive, isMicMuted, msgs, currentVolume>>
    /\ UNCHANGED <<audioContextRef, audioStreamRef, peerConnectionRef, dataChannelRef,
                   mediaRecorderRef, functionRegistry>>
    /\ UNCHANGED <<stream, trackEnabled, ctx, conn, chan, rec, call, timers,
                   pendingTools, cntVars>>
    /\ UNCHANGED <<volVars, routeVars>>

\* case "response.audio_transcript.delta"
AssistantDelta ==
  \E d \in Deltas :
    /\ Deliverable
    /\ Delivered
    /\ conversation' = AppendDelta(conversation, nextId, d)
    /\ nextId' = nextId + 1
    /\ LogRaw(<<"response.audio_transcript.delta", d>>)
    /\ Op("delta", d)
    /\ run' = IF run.live /\ ~run.done
              THEN [run EXCEPT !.text = @ \o <<d>>]
              ELSE IF Len(conversation) > 0 /\ Last(conversation).role = "assistant"
                      /\ ~Last(conversation).isFinal
              THEN NoRun
              ELSE [live |-> TRUE, base |-> conversation, text |-> <<d>>, done |-> FALSE]
    /\ UNCHANGED <<status, isSessionActive, isMicMuted, currentVolume>>
    /\ UNCHANGED <<refVars, functionRegistry, objVars, pendVars>>
    /\ UNCHANGED <<nextChunk, turn, stoppedWhile>>
    /\ UNCHANGED <<volVars, routeVars>>

\* case "response.audio_transcript.done"
AssistantDone ==
  /\ Deliverable
  /\ Delivered
  /\ conversation' = MarkTailFinal(conversation)
  /\ LogRaw(<<"response.audio_transcript.done">>)
  /\ Op("done", "")
  /\ run' = IF run.live /\ ~run.done THEN [run EXCEPT !.done = TRUE] ELSE NoRun
  /\ UNCHANGED <<status, isSessionActive, isMicMuted, currentVolume>>
  /\ UNCHANGED <<refVars, functionRegistry, objVars, pendVars>>
  /\ UNCHANGED <<nextId, nextChunk, turn, stoppedWhile>>
  /\ UNCHANGED <<volVars, routeVars>>

\* variant: send() on a channel that is not open yet queues the message
ReplyToolResultQueued(callId, result, m) ==
  IF dataChannelRef = NULL
  THEN /\ LogRaw(m) /\ OpOn("tool", "no_channel", m[2]) /\ UNCHANGED sent
  ELSE /\ sent' = SendTwo(dataChannelRef, FunctionCallOutput(callId, result), ResponseCreate)
       /\ LogRaw(m)
       /\ OpOn("tool", "replied", m[2])

\* the two dataChannelRef.current?.send(...) calls after the tool returned, and
\* the raw-log append that follows them. send() on a channel that is not open
\* throws InvalidStateError, which the handler's catch swallows.
ReplyToolResult(callId, result, m) ==
  IF dataChannelRef = NULL
  THEN /\ LogRaw(m) /\ OpOn("tool", "no_channel", m[2]) /\ UNCHANGED sent
  ELSE IF chan[dataChannelRef] = "open"
  THEN /\ sent' = SendTwo(dataChannelRef, FunctionCallOutput(callId, result), ResponseCreate)
       /\ LogRaw(m)
       /\ OpOn("tool", "replied", m[2])
  ELSE /\ OpOn("tool", "send_threw", m[2]) /\ UNCHANGED <<sent, msgs>>

\* a handler suspended at `await fn(args)`: its message, and with it the
\* channel the hook held and the next fresh uuid when the message arrived
Suspended(m) == [msg |-> m, channel |-> dataChannelRef, seen |-> nextId]

\* case "response.function_call_arguments.done": up to `await fn(args)` and,
\* for a handler that settles at once, to the end of the handler
FunctionCall ==
  \E name \in ToolNames, callId \in CallIds,
     outcome \in {"bad_arguments", "returns", "throws", "suspends"} :
    LET m == <<"response.function_call_arguments.done", name, callId>>
        fn == Lookup(functionRegistry, name)
    IN /\ Deliverable
       /\ Delivered
       /\ fn = "inherited" => outcome \in {"bad_arguments", "returns"}
       /\ fn = "undefined" => outcome = "returns"
       /\ CASE fn = "undefined" ->
                 /\ LogRaw(m) /\ OpOn("tool", "unregistered", name)
                 /\ UNCHANGED <<sent, pendingTools>>
            [] fn # "undefined" /\ outcome = "bad_arguments" ->
                 /\ OpOn("tool", "bad_arguments", name)
                 /\ UNCHANGED <<sent, msgs, pendingTools>>
            [] fn # "undefined" /\ outcome = "throws" ->
                 /\ OpOn("tool", "threw", name)
                 /\ UNCHANGED <<sent, msgs, pendingTools>>
            [] fn # "undefined" /\ outcome = "suspends" ->
                 /\ pendingTools' = Append(pendingTools, Suspended(m))
                 /\ OpOn("tool", "suspended", name)
                 /\ UNCHANGED <<sent, msgs>>
            [] fn = "registered" /\ outcome = "returns" ->
                 /\ ReplyToolResult(callId, "result", m)
                 /\ UNCHANGED pendingTools
            [] fn = "inherited" /\ outcome = "returns" ->
                 /\ ReplyToolResult(callId, "[object Undefined]", m)
                 /\ UNCHANGED pendingTools
       /\ UNCHANGED <<status, isSessionActive, isMicMuted, conversation, currentVolume>>
       /\ UNCHANGED <<refVars, functionRegistry>>
       /\ UNCHANGED <<stream, trackEnabled, ctx, conn, chan, rec, call, timers, pendingTx>>
       /\ UNCHANGED <<nextId, nextChunk, run, turn, stoppedWhile>>
       /\ UNCHANGED <<volVars, routeVars>>

\* a suspended tool handler settles: the rest of the message handler
ToolSettles ==
  \E k \in 1..Len(pendingTools), ok \in BOOLEAN :
    /\ pendingTools' = RemoveAt(pendingTools, k)
    /\ IF ok
       THEN ReplyToolResult(pendingTools[k].msg[3], "result", pendingTools[k].msg)
       ELSE /\ OpOn("tool", "rejected", pendingTools[k].msg[2]) /\ UNCHANGED <<sent, msgs>>
    /\ UNCHANGED <<status, isSessionActive, isMicMuted, conversation, currentVolume>>
    /\ UNCHANGED <<refVars, functionRegistry>>
    /\ UNCHANGED <<stream, trackEnabled, ctx, conn, chan, rec, call, timers, pendingTx>>
    /\ UNCHANGED <<cntVars, run, turn, stoppedWhile>>
    /\ UNCHANGED <<volVars, routeVars>>

\* the cases that only log, and the default case
IgnoredMessage ==
  \E tag \in IgnoredTags :
    /\ Deliverable
    /\ Delivered
    /\ LogRaw(<<tag>>)
    /\ Op("ignored", tag)
    /\ UNCHANGED <<status, isSessionActive, isMicMuted, conversation, currentVolume>>
    /\ UNCHANGED <<refVars, functionRegistry, objVars, pendVars>>
    /\ UNCHANGED <<nextId, nextChunk, run, turn, stoppedWhile>>
    /\ UNCHANGED <<volVars, routeVars>>

\* JSON.parse(event.data) throws: the catch logs to the console only
UnparsableMessage ==
  /\ Deliverable
  /\ Delivered
  /\ Op("unparsable", "")
  /\ UNCHANGED <<stateVars, refVars, functionRegistry, objVars, pendVars>>
  /\ UNCHANGED <<nextId, nextChunk, run, turn, stoppedWhile>>
  /\ UNCHANGED <<volVars, routeVars>>

\* ------------------------------------------------------------- recorder
\* mediaRecorder.ondataavailable of recorder c (the 500 ms slices, the reply
\* to requestData(), and the last event after stop())
DataAvailable ==
  \E c \in Calls, size \in {0, 1} :
    /\ rec[c] \in {"recording", "flushing"}
    /\ rec[c] = "recording" => budget > 0
    /\ rec' = IF rec[c] = "flushing" THEN [rec EXCEPT ![c] = "inactive"] ELSE rec
    /\ audioChunksRef' = IF size > 0 THEN Append(audioChunksRef, nextChunk)
                         ELSE audioChunksRef
    /\ nextChunk' = IF size > 0 THEN nextChunk + 1 ELSE nextChunk
    /\ budget' = IF rec[c] = "recording" THEN budget - 1 ELSE budget
    /\ Op("chunk", IF size > 0 THEN "kept" ELSE "dropped")
    /\ UNCHANGED stoppedWhile
    /\ turn' = IF size > 0 /\ turn.phase \in {"started", "stopped"}
               THEN [turn EXCEPT !.chunks = Append(@, nextChunk)]
               ELSE turn
    /\ UNCHANGED <<stateVars, functionRegistry, pendVars>>
    /\ UNCHANGED <<audioContextRef, audioStreamRef, peerConnectionRef, dataChannelRef,
                   mediaRecorderRef, ephemeralUserMessageIdRef>>
    /\ UNCHANGED <<stream, trackEnabled, ctx, conn, chan, sent>>
    /\ UNCHANGED <<nextId, run>>
    /\ UNCHANGED <<volVars, routeVars>>

\* ------------------------------------------------------ UI operations
\* sendTextMessage(text)
SendTextMessage ==
  \E text \in Typed :
    /\ budget > 0
    /\ budget' = budget - 1
    /\ IF ~ChannelReady(dataChannelRef)
       THEN /\ OpOn("send_text", "not_ready", text)
            /\ UNCHANGED <<conversation, sent, nextId>>
       ELSE /\ conversation' = Append(conversation, NewTyped(nextId, text))
            /\ nextId' = nextId + 1
            /\ sent' = SendTwo(dataChannelRef, ItemCreate(text), ResponseCreate)
            /\ OpOn("send_text", "sent", text)
    /\ RunBroken
    /\ UNCHANGED <<status, isSessionActive, isMicMuted, msgs, currentVolume>>
    /\ UNCHANGED <<refVars, functionRegistry, pendVars>>
    /\ UNCHANGED <<stream, trackEnabled, ctx, conn, chan, rec>>
    /\ UNCHANGED <<nextChunk, turn, stoppedWhile>>
    /\ UNCHANGED <<volVars, routeVars>>

\* registerFunction(name, fn)
RegisterFunction ==
  /\ RegisteredTool \notin functionRegistry
  /\ functionRegistry' = functionRegistry \cup {RegisteredTool}
  /\ Op("register", RegisteredTool)
  /\ UNCHANGED <<stateVars, refVars, objVars, pendVars, cntVars, run, turn, stoppedWhile>>
  /\ UNCHANGED <<volVars, routeVars>>

\* --------------------------------------------------------- stopSession
\* everything stopSession reads or writes, as one record
SessionState ==
  [status |-> status, isSessionActive |-> isSessionActive, isMicMuted |-> isMicMuted,
   msgs |-> msgs, conversation |-> conversation, currentVolume |-> currentVolume,
   audioContextRef |-> audioContextRef, audioStreamRef |-> audioStreamRef,
   peerConnectionRef |-> peerConnectionRef, dataChannelRef |-> dataChannelRef,
   mediaRecorderRef |-> mediaRecorderRef,
   ephemeralUserMessageIdRef |-> ephemeralUserMessageIdRef,
   audioChunksRef |-> audioChunksRef,
   stream |-> stream, ctx |-> ctx, conn |-> conn, chan |-> chan, rec |-> rec,
   analyserRef |-> analyserRef, volumeIntervalRef |-> volumeIntervalRef,
   interval |-> interval,
   threw |-> FALSE]

\* obj with the object a ref names set to `to`; a null ref names nothing
Release(obj, ref, to) == IF ref = NULL THEN obj ELSE [obj EXCEPT ![ref] = to]

\* MediaRecorder.stop(): InvalidStateError on an inactive recorder; otherwise
\* the recorder becomes inactive and queues its last dataavailable event
MediaRecorderStop(state) ==
  IF state = "recording" THEN [state |-> "flushing", threw |-> FALSE]
  ELSE [state |-> state, threw |-> TRUE]

\* variant: stop() is called whatever the recorder state
StopGuardMissing(state) == TRUE

\* if (mediaRecorderRef.current.state !== 'inactive')
StopGuard(state) == state = "recording"

\* variant: the two logs are not cleared
ResetStateKeepsLogs(s) ==
  [s EXCEPT !.audioChunksRef = <<>>,
            !.ephemeralUserMessageIdRef = NULL,
            !.currentVolume = 0,
            !.isSessionActive = FALSE,
            !.status = "Session stopped"]

\* the end of stopSession: the buffer, the ephemeral id and the React state
ResetState(s) ==
  [s EXCEPT !.audioChunksRef = <<>>,
            !.ephemeralUserMessageIdRef = NULL,
            !.currentVolume = 0,
            !.isSessionActive = FALSE,
            !.status = "Session stopped",
            !.msgs = <<>>,
            !.conversation = <<>>]

\* stopSession() run on the state s. timeoutRef is never assigned, so the
\* clearTimeout branch never runs and the settling timers stay pending.
StopSessionOn(s) ==
  LET released ==
        [s EXCEPT !.chan = Release(@, s.dataChannelRef, "closed"),
                  !.dataChannelRef = NULL,
                  !.conn = Release(@, s.peerConnectionRef, "closed"),
                  !.peerConnectionRef = NULL,
                  !.ctx = Release(@, s.audioContextRef, "closed"),
                  !.audioContextRef = NULL,
                  !.stream = Release(@, s.audioStreamRef, "stopped"),
                  !.audioStreamRef = NULL,
                  !.interval = Release(@, s.volumeIntervalRef, "cleared"),
                  !.volumeIntervalRef = NULL]
      r == s.mediaRecorderRef
      stopped == IF r # NULL /\ StopGuard(s.rec[r])
                 THEN MediaRecorderStop(s.rec[r])
                 ELSE [state |-> IF r = NULL THEN "none" ELSE s.rec[r], threw |-> FALSE]
  IN IF stopped.threw
     THEN [released EXCEPT !.threw = TRUE]
     ELSE ResetState([released EXCEPT !.rec = Release(@, r, stopped.state),
                                      !.mediaRecorderRef = NULL,
                                      !.analyserRef = NULL])

\* the state after stopSession() ran on s
Becomes(s) ==
  /\ status' = s.status /\ isSessionActive' = s.isSessionActive
  /\ isMicMuted' = s.isMicMuted /\ msgs' = s.msgs
  /\ conversation' = s.conversation /\ currentVolume' = s.currentVolume
  /\ audioContextRef' = s.audioContextRef /\ audioStreamRef' = s.audioStreamRef
  /\ peerConnectionRef' = s.peerConnectionRef /\ dataChannelRef' = s.dataChannelRef
  /\ mediaRecorderRef' = s.mediaRecorderRef
  /\ ephemeralUserMessageIdRef' = s.ephemeralUserMessageIdRef
  /\ audioChunksRef' = s.audioChunksRef
  /\ stream' = s.stream /\ ctx' = s.ctx /\ conn' = s.conn /\ chan' = s.chan
  /\ rec' = s.rec
  /\ analyserRef' = s.analyserRef /\ volumeIntervalRef' = s.volumeIntervalRef
  /\ interval' = s.interval
  /\ UNCHANGED <<inboundCtx, routeVars>>

\* where a startSession call can be suspended: at getUserMedia, at
\* getEphemeralToken, and in the negotiation (createOffer, setLocalDescription,
\* the SDP fetch, response.text(), setRemoteDescription: five awaits in a row
\* with no statement that touches the hook's state between them)
Awaiting == {"mic", "token", "negotiation"}

StopBody ==
  /\ budget > 0
  /\ budget' = budget - 1
  /\ Becomes(StopSessionOn(SessionState))
  /\ Op("stop", IF lastOp.op = "stop" THEN "again" ELSE "first")
  /\ stoppedWhile' = stoppedWhile \cup {c \in Calls : call[c] \in Awaiting}
  /\ run' = NoRun /\ turn' = NoTurn
  /\ UNCHANGED <<functionRegistry, trackEnabled, sent, pendVars, nextId, nextChunk>>

\* stopSession(), called directly or by the unmount cleanup
StopSession == StopBody

\* -------------------------------------------------------- startSession
\* startSession() up to `await navigator.mediaDevices.getUserMedia(...)`
StartBody ==
  /\ budget > 0
  /\ budget' = budget - 1
  /\ call' = Append(call, "mic")
  /\ stream' = Append(stream, "none") /\ trackEnabled' = Append(trackEnabled, TRUE)
  /\ ctx' = Append(ctx, "none") /\ conn' = Append(conn, "none")
  /\ chan' = Append(chan, "none") /\ rec' = Append(rec, "none")
  /\ sent' = Append(sent, <<>>)
  /\ inboundCtx' = Append(inboundCtx, "none") /\ interval' = Append(interval, "none")
  /\ UNCHANGED <<analyserRef, volumeIntervalRef, routeVars>>
  /\ status' = "Requesting microphone access..."
  /\ Op("start", "begin")
  /\ UNCHANGED <<isSessionActive, isMicMuted, msgs, conversation, currentVolume>>
  /\ UNCHANGED <<refVars, functionRegistry, timers, pendingTx, pendingTools>>
  /\ UNCHANGED <<nextId, nextChunk, run, turn, stoppedWhile>>

\* startSession(), called directly
StartSession == StartBody

\* handleStartStopClick()
HandleStartStopClick == IF isSessionActive THEN StopBody ELSE StartBody

\* variant: the catch block sets the status and does not call stopSession
CatchStartErrorNoTeardown(c, s) ==
  /\ Becomes([s EXCEPT !.status = "Error"])
  /\ call' = [call EXCEPT ![c] = "failed"]
  /\ OpOn("start", "failed", "returned")
  /\ UNCHANGED stoppedWhile
  /\ run' = NoRun /\ turn' = NoTurn
  /\ UNCHANGED <<functionRegistry, trackEnabled, sent, timers, pendingTx, pendingTools>>
  /\ UNCHANGED cntVars

\* the catch block of startSession: setStatus(`Error: ${err}`); stopSession().
\* An exception of stopSession would leave the catch block and reject the
\* promise startSession returned.
CatchStartError(c, s) ==
  /\ Becomes(StopSessionOn([s EXCEPT !.status = "Error"]))
  /\ call' = [call EXCEPT ![c] = "failed"]
  /\ OpOn("start", "failed",
          IF StopSessionOn([s EXCEPT !.status = "Error"]).threw THEN "rejected"
          ELSE "returned")
  /\ UNCHANGED stoppedWhile
  /\ run' = NoRun /\ turn' = NoTurn
  /\ UNCHANGED <<functionRegistry, trackEnabled, sent, timers, pendingTx, pendingTools>>
  /\ UNCHANGED cntVars

\* an await of startSession rejects (getUserMedia, the token fetch, createOffer,
\* setLocalDescription, the SDP fetch, response.text(), setRemoteDescription)
StartFails ==
  \E c \in Calls :
    /\ call[c] \in Awaiting
    /\ CatchStartError(c, SessionState)

\* getUserMedia resolved: up to `await getEphemeralToken()`
MicGranted ==
  \E c \in Calls :
    /\ call[c] = "mic"
    /\ call' = [call EXCEPT ![c] = "token"]
    /\ stream' = [stream EXCEPT ![c] = "live"]
    /\ audioStreamRef' = c
    /\ ctx' = [ctx EXCEPT ![c] = "running"]
    /\ audioContextRef' = c
    /\ status' = "Fetching ephemeral token..."
    /\ Op("start", "mic")
    /\ UNCHANGED <<isSessionActive, isMicMuted, msgs, conversation, currentVolume>>
    /\ UNCHANGED <<peerConnectionRef, dataChannelRef, mediaRecorderRef,
                   ephemeralUserMessageIdRef, audioChunksRef, functionRegistry>>
    /\ UNCHANGED <<trackEnabled, conn, chan, rec, sent, timers, pendingTx, pendingTools>>
    /\ UNCHANGED <<cntVars, run, turn, stoppedWhile>>
    /\ UNCHANGED <<volVars, routeVars>>

\* the token arrived: the connection, the data channel and the recorder are
\* created, up to `await pc.createOffer()`. MediaRecorder.start() throws
\* NotSupportedError when the stream is inactive (its tracks were stopped).
TokenFetched ==
  \E c \in Calls :
    /\ call[c] = "token"
    /\ LET s == [SessionState EXCEPT
                   !.status = "Establishing connection...",
                   !.conn = [@ EXCEPT ![c] = "open"], !.peerConnectionRef = c,
                   !.chan = [@ EXCEPT ![c] = "connecting"], !.dataChannelRef = c,
                   !.rec = [@ EXCEPT ![c] = IF stream[c] = "live" THEN "recording"
                                            ELSE "inactive"],
                   !.mediaRecorderRef = c]
       IN IF stream[c] = "live"
          THEN /\ Becomes(s)
               /\ call' = [call EXCEPT ![c] = "negotiation"]
               /\ Op("start", "token")
               /\ UNCHANGED <<functionRegistry, trackEnabled, sent, timers, pendingTx,
                              pendingTools, cntVars, run, turn, stoppedWhile>>
          ELSE CatchStartError(c, s)

\* the negotiation resolved. Applying the remote description fires pc.ontrack
\* for the assistant's audio track before the promise resolves: the callback
\* creates an AudioContext and an analyser, and starts the volume interval,
\* overwriting analyserRef and volumeIntervalRef. createOffer, setLocalDescription and
\* setRemoteDescription reject on a closed connection, so it resolves only
\* while the connection is open. Then: setIsSessionActive(true);
\* setStatus("Session established successfully!")
Negotiated ==
  \E c \in Calls :
    /\ call[c] = "negotiation"
    /\ conn[c] = "open"
    /\ call' = [call EXCEPT ![c] = "done"]
    /\ isSessionActive' = TRUE
    /\ status' = "Session established successfully!"
    /\ Op("start", "done")
    /\ inboundCtx' = [inboundCtx EXCEPT ![c] = "running"]
    /\ analyserRef' = c
    /\ interval' = [interval EXCEPT ![c] = "running"]
    /\ volumeIntervalRef' = c
    /\ UNCHANGED routeVars
    /\ UNCHANGED <<isMicMuted, msgs, conversation, currentVolume>>
    /\ UNCHANGED <<refVars, functionRegistry, objVars, timers, pendingTx, pendingTools>>
    /\ UNCHANGED <<cntVars, run, turn, stoppedWhile>>

\* dataChannel.onopen: configureDataChannel(dataChannel). The channel opens
\* once the remote description has been applied.
ChannelOpens ==
  \E c \in Calls :
    /\ chan[c] = "connecting" /\ call[c] = "done"
    /\ chan' = [chan EXCEPT ![c] = "open"]
    /\ sent' = SendTwo(c, SessionUpdate, ItemCreate("languagePrompt"))
    /\ Op("open", "")
    /\ UNCHANGED <<stateVars, refVars, functionRegistry, pendVars, cntVars, run, turn, stoppedWhile>>
    /\ UNCHANGED <<stream, trackEnabled, ctx, conn, rec>>
    /\ UNCHANGED <<volVars, routeVars>>

\* toggleMic()
ToggleMic ==
  /\ budget > 0
  /\ budget' = budget - 1
  /\ audioStreamRef # NULL
  /\ trackEnabled' = [trackEnabled EXCEPT ![audioStreamRef] = ~@]
  /\ isMicMuted' = trackEnabled[audioStreamRef]
  /\ Op("toggle", "")
  /\ UNCHANGED <<status, isSessionActive, msgs, conversation, currentVolume>>
  /\ UNCHANGED <<refVars, functionRegistry, pendVars, nextId, nextChunk, run, turn, stoppedWhile>>
  /\ UNCHANGED <<stream, ctx, conn, chan, rec, sent>>
  /\ UNCHANGED <<volVars, routeVars>>

\* ------------------------------------------------------- specification
Next ==
  \/ StartSession \/ StopSession \/ HandleStartStopClick
  \/ MicGranted \/ TokenFetched \/ Negotiated \/ StartFails \/ ChannelOpens
  \/ SpeechStarted \/ SpeechStopped \/ SettleTimer \/ TranscriptionDone
  \/ AssistantDelta \/ AssistantDone \/ FunctionCall \/ ToolSettles
  \/ IgnoredMessage \/ UnparsableMessage
  \/ DataAvailable \/ SendTextMessage \/ ToggleMic \/ RegisterFunction

Spec == Init /\ [][Next]_vars

\* The state after startSession ran to its end and the data channel opened
\* (StartSession, MicGranted, TokenFetched, Negotiated, ChannelOpens), with n
\* inputs to come.
Established(n) ==
  /\ status = "Session established successfully!"
  /\ isSessionActive = TRUE /\ isMicMuted = FALSE
  /\ msgs = <<>> /\ conversation = <<>> /\ currentVolume = 0
  /\ audioContextRef = 1 /\ audioStreamRef = 1 /\ peerConnectionRef = 1
  /\ dataChannelRef = 1 /\ mediaRecorderRef = 1
  /\ functionRegistry = {}
  /\ ephemeralUserMessageIdRef = NULL /\ audioChunksRef = <<>>
  /\ stream = <<"live">> /\ trackEnabled = <<TRUE>> /\ ctx = <<"running">>
  /\ conn = <<"open">> /\ chan = <<"open">> /\ rec = <<"recording">>
  /\ sent = << <<SessionUpdate, ItemCreate("languagePrompt")>> >>
  /\ call = <<"done">>
  /\ timers = 0 /\ pendingTx = <<>> /\ pendingTools = <<>>
  /\ nextId = 1 /\ nextChunk = 1
  /\ budget = n
  /\ lastOp = [op |-> "open", info |-> "", arg |-> ""]
  /\ run = NoRun /\ turn = NoTurn /\ stoppedWhile = {}
  /\ req = [r \in Requests |-> NoRequest] /\ files = {}
  /\ analyserRef = 1 /\ volumeIntervalRef = 1
  /\ inboundCtx = <<"running">> /\ interval = <<"running">>

\* speech turns, assistant transcripts and typed messages of one session
InitTalk == Established(TalkInputs)

NextTalk ==
  \/ SpeechStarted \/ SpeechStopped \/ SettleTimer \/ TranscriptionDone
  \/ AssistantDelta \/ AssistantDone \/ DataAvailable \/ SendTextMessage

SpecTalk == InitTalk /\ [][NextTalk]_vars

\* the same session with the browser's scheduling: a timer that was set fires
\* (setTimeout, line 417) and a fetch that was issued settles (line 332)
InitLive == Established(LiveInputs)

NextLive ==
  \/ SpeechStarted \/ SpeechStopped \/ SettleTimer \/ TranscriptionDone
  \/ AssistantDelta \/ AssistantDone \/ DataAvailable \/ SendTextMessage
  \/ IgnoredMessage

SpecLive ==
  /\ InitLive /\ [][NextLive]_vars
  /\ WF_vars(SettleTimer) /\ WF_vars(TranscriptionDone)

\* tool calls of one session
InitTools == Established(ToolInputs)

NextTools ==
  \/ RegisterFunction \/ FunctionCall \/ ToolSettles
  \/ AssistantDelta \/ StopSession

SpecTools == InitTools /\ [][NextTools]_vars

\* ------------------------------------------------- teardown with faults
\* stopSession has no try/catch: when a close() call throws, the statements
\* after it do not run and the exception leaves stopSession.
Faults == {"channel", "connection", "context"}

\* stopSession() run on the state s, with the close() of `fault` throwing
StopSessionFaulting(s, fault) ==
  IF fault = "channel" /\ s.dataChannelRef # NULL
  THEN [s EXCEPT !.threw = TRUE]
  ELSE LET a == [s EXCEPT !.chan = Release(@, s.dataChannelRef, "closed"),
                          !.dataChannelRef = NULL]
       IN IF fault = "connection" /\ s.peerConnectionRef # NULL
          THEN [a EXCEPT !.threw = TRUE]
          ELSE LET b == [a EXCEPT !.conn = Release(@, s.peerConnectionRef, "closed"),
                                  !.peerConnectionRef = NULL]
               IN IF fault = "context" /\ s.audioContextRef # NULL
                  THEN [b EXCEPT !.threw = TRUE]
                  ELSE StopSessionOn(b)

\* stopSession() while one of the close() calls throws
StopSessionFaulty ==
  \E fault \in Faults :
    LET after == StopSessionFaulting(SessionState, fault)
    IN /\ budget > 0
       /\ budget' = budget - 1
       /\ Becomes(after)
       /\ OpOn("stop_fault", IF after.threw THEN "threw" ELSE "returned", fault)
       /\ run' = IF after.threw THEN run ELSE NoRun
       /\ UNCHANGED stoppedWhile
       /\ turn' = IF after.threw THEN turn ELSE NoTurn
       /\ UNCHANGED <<functionRegistry, trackEnabled, sent, pendVars, nextId, nextChunk>>

\* one session, torn down while a release fails
InitFaults == Established(FaultInputs)

NextFaults ==
  \/ StopSessionFaulty \/ StopSession
  \/ SpeechStarted \/ AssistantDelta \/ DataAvailable \/ ToggleMic

SpecFaults == InitFaults /\ [][NextFaults]_vars

\* a session with tool calls that is stopped and started again
InitRestart == Established(RestartInputs)

NextRestart ==
  \/ RegisterFunction \/ FunctionCall \/ ToolSettles
  \/ StopSession \/ StartSession
  \/ MicGranted \/ TokenFetched \/ Negotiated \/ ChannelOpens

SpecRestart == InitRestart /\ [][NextRestart]_vars

\* ---------------------------------------------- transcription route
hookVars == <<stateVars, refVars, functionRegistry, objVars, pendVars, cntVars, histVars,
              volVars>>

\* the outer catch: the two guarded unlink calls, then the 500 response
OuterCatch(r, q, fs) ==
  /\ files' = CleanUp(fs, q.originalFilePath, q.tempFilePath)
  /\ req' = [req EXCEPT ![r] = [q EXCEPT !.pc = "done",
                                  !.response = ErrorResponse(500, "Failed to transcribe audio")]]

\* POST(request) up to `await request.formData()`
RouteReceive ==
  \E r \in Requests, hasKey \in BOOLEAN :
    /\ req[r].pc = "idle"
    /\ req' = [req EXCEPT ![r] =
                 IF hasKey THEN [@ EXCEPT !.pc = "formData"]
                 ELSE [@ EXCEPT !.pc = "done",
                                !.response = ErrorResponse(500, "GROQ_API_KEY is not configured")]]
    /\ UNCHANGED <<files, hookVars>>

\* the form data arrived (or the body was no form data): up to
\* `await writeFile(originalFilePath, buffer)`
RouteFormData ==
  \E r \in Requests, body \in {"audio", "no_audio", "throws"} :
    /\ req[r].pc = "formData"
    /\ CASE body = "no_audio" ->
              /\ req' = [req EXCEPT ![r] = [@ EXCEPT !.pc = "done",
                           !.response = ErrorResponse(400, "No audio file provided")]]
              /\ UNCHANGED files
         [] body = "throws" -> OuterCatch(r, req[r], files)
         [] body = "audio" ->
              /\ req' = [req EXCEPT ![r] = [@ EXCEPT !.pc = "write",
                           !.originalFilePath = OriginalPath(r),
                           !.tempFilePath = OriginalPath(r)]]
              /\ UNCHANGED files
    /\ UNCHANGED hookVars

\* writeFile settled: up to `await execAsync(ffmpegCommand)`. A writeFile that
\* rejects may or may not have created the file.
RouteWritten ==
  \E r \in Requests, ok \in BOOLEAN, created \in BOOLEAN :
    /\ req[r].pc = "write"
    /\ ok => created
    /\ LET fs == IF created THEN files \cup {req[r].originalFilePath} ELSE files
       IN IF ok
          THEN /\ files' = fs
               /\ req' = [req EXCEPT ![r] = [@ EXCEPT !.pc = "ffmpeg"]]
          ELSE OuterCatch(r, req[r], fs)
    /\ UNCHANGED hookVars

\* ffmpeg settled: tempFilePath names the converted file only if ffmpeg
\* succeeded; up to `await execAsync(curlCommand)`
RouteConverted ==
  \E r \in Requests, outcome \in FfmpegOutcomes :
    /\ req[r].pc = "ffmpeg"
    /\ files' = IF outcome \in {"converted", "fails_with_output"}
                THEN files \cup {ConvertedPath(r)} ELSE files
    /\ req' = [req EXCEPT ![r] = [@ EXCEPT !.pc = "curl",
                 !.tempFilePath = IF outcome = "converted" THEN ConvertedPath(r) ELSE @]]
    /\ UNCHANGED hookVars

\* curl settled: the rest of the handler. When execAsync resolved, the temp
\* files are deleted and the two paths set to null before the body is
\* looked at; when it rejected, the inner catch returns the 500 response.
RouteCurl ==
  \E r \in Requests, outcome \in CurlOutcomes :
    /\ req[r].pc = "curl"
    /\ IF outcome = "rejects"
       THEN /\ req' = [req EXCEPT ![r] = [@ EXCEPT !.pc = "done",
                         !.response = ErrorResponse(500, "Groq API transcription failed")]]
            /\ UNCHANGED files
       ELSE /\ files' = CleanUp(files, req[r].originalFilePath, req[r].tempFilePath)
            /\ req' = [req EXCEPT ![r] = [@ EXCEPT !.pc = "done",
                         !.originalFilePath = NoPath, !.tempFilePath = NoPath,
                         !.response = IF outcome \in {"empty", "unparsable"}
                                      THEN ErrorResponse(500, "Groq API transcription failed")
                                      ELSE OkResponse]]
    /\ UNCHANGED hookVars

\* POSTs to the route, next to a hook that was rendered and not started
InitRoute == Init

NextRoute ==
  \/ RouteReceive \/ RouteFormData \/ RouteWritten \/ RouteConverted \/ RouteCurl

SpecRoute == InitRoute /\ [][NextRoute]_vars

\* ================================================================ claims
Ids(conv) == [i \in 1..Len(conv) |-> conv[i].id]
IsPrefix(a, b) == Len(a) <= Len(b) /\ SubSeq(b, 1, Len(a)) = a
Distinct(seq) == \A i, j \in 1..Len(seq) : i # j => seq[i] # seq[j]
NonFinalAssistant(e) == e.role = "assistant" /\ ~e.isFinal

\* C1: every assistant entry that is not the last entry of the log is final
\* (at most one non-final assistant entry exists, and it is the tail).
C1_NonTailAssistantsFinal ==
  \A i \in 1..(Len(conversation) - 1) : ~NonFinalAssistant(conversation[i])

\* C2: isFinal is monotonic: an entry that is final stays final in the next
\* state, as long as an entry with its id exists.
C2_FinalStaysFinal ==
  [][\A i \in 1..Len(conversation) : \A j \in 1..Len(conversation') :
       (conversation[i].isFinal /\ conversation'[j].id = conversation[i].id)
         => conversation'[j].isFinal]_vars

\* C2 witness: the ephemeral entry was marked final by a done event while the
\* ephemeral-id reference still names it, and speech_stopped then updated it.
C2_Witness ==
  /\ lastOp.op = "speech_stopped"
  /\ \E i \in 1..Len(conversation) :
       /\ conversation[i].id = ephemeralUserMessageIdRef
       /\ conversation[i].isFinal
       /\ conversation[i].status = "processing"

\* a step in which stopSession ran: called by the UI or the unmount cleanup, or
\* by the catch block of startSession
StopStep == lastOp'.op = "stop"
FailedStartStep == lastOp'.op = "start" /\ lastOp'.info = "failed"

LogGrows ==
  /\ IsPrefix(Ids(conversation), Ids(conversation'))
  /\ Distinct(Ids(conversation'))

C4_DeltaRun ==
  run.live =>
    /\ Len(conversation) = Len(run.base) + 1
    /\ SubSeq(conversation, 1, Len(run.base)) = run.base
    /\ Last(conversation).role = "assistant"
    /\ Last(conversation).text = run.text
    /\ Last(conversation).isFinal = run.done

\* C4 witness: three deltas and the done event were handled after an earlier
\* entry.
C4_Witness ==
  /\ run.live /\ run.done /\ Len(run.text) = 3 /\ Len(run.base) >= 1
  /\ lastOp.op = "done"

\* C5: in a speech turn that starts with no timer and no request pending,
\* with the recorder recording (speech_started, k >= 1 non-empty chunks,
\* speech_stopped), nothing is requested before the settling timer fires, and
\* when it fires exactly one transcription is requested, for the chunks that
\* arrived since speech_started, in arrival order.
C5_TurnTranscribedOnce ==
  /\ turn.phase = "stopped" => (timers = 1 /\ pendingTx = <<>>)
  /\ turn.phase = "fired" =>
       /\ turn.n = 1
       /\ turn.blob = turn.chunks
       /\ pendingTx = <<turn.chunks>>
       /\ timers = 0

\* C5 witness: the timer of a turn with two chunks fired.
C5_Witness == turn.phase = "fired" /\ Len(turn.chunks) >= 2 /\ lastOp.op = "settle"

\* C6: when the settling timer fires with an empty buffer, no transcription
\* is requested, nothing is sent and the log is not written.
C6_EmptyBufferQuiet ==
  [][(timers' = timers - 1 /\ audioChunksRef = <<>>)
       => (pendingTx' = pendingTx /\ sent' = sent /\ conversation' = conversation)]_vars

\* C6 witness: a settling timer fired on an empty buffer while an ephemeral
\* entry was waiting for its transcript.
C6_Witness ==
  /\ lastOp.op = "settle" /\ lastOp.info = "empty_buffer"
  /\ ephemeralUserMessageIdRef # NULL

SendTextStep == lastOp'.op = "send_text"

\* C7: sendTextMessage(text) with the channel open appends one final user
\* entry with the text and sends conversation.item.create with the text, then
\* response.create; with the channel absent or not open it changes neither
\* the log nor the outbound messages.
C7_SendText ==
  [][SendTextStep =>
       IF dataChannelRef # NULL /\ chan[dataChannelRef] = "open"
       THEN /\ Len(conversation') = Len(conversation) + 1
            /\ SubSeq(conversation', 1, Len(conversation)) = conversation
            /\ Last(conversation').role = "user"
            /\ Last(conversation').text = <<lastOp'.arg>>
            /\ Last(conversation').isFinal
            /\ sent' = [sent EXCEPT ![dataChannelRef] =
                          @ \o <<ItemCreate(lastOp'.arg), ResponseCreate>>]
       ELSE conversation' = conversation /\ sent' = sent]_vars

\* C7 witness: a text was sent on the open channel.
C7_Witness ==
  /\ lastOp.op = "send_text" /\ lastOp.info = "sent"
  /\ Len(conversation) >= 1 /\ Last(conversation).text = <<lastOp.arg>>

ToolCallStep == lastOp'.op = "tool" /\ budget' = budget - 1

\* C8, as claimed: a function call that names a tool nobody registered sends
\* nothing and leaves the log unchanged.
C8_UnregisteredToolSilent ==
  [][(ToolCallStep /\ lastOp'.arg \notin functionRegistry)
       => (sent' = sent /\ conversation' = conversation)]_vars

\* the messages a step sent on the channel the hook holds
NewlySent ==
  IF dataChannelRef = NULL THEN <<>>
  ELSE SubSeq(sent'[dataChannelRef], Len(sent[dataChannelRef]) + 1,
              Len(sent'[dataChannelRef]))

\* C9, as claimed: when a registered tool handler throws or rejects, a
\* function_call_output is sent, and the session stays active.
C9_ToolErrorReported ==
  [][(lastOp'.op = "tool" /\ lastOp'.info \in {"threw", "rejected"})
       => /\ \E k \in 1..Len(NewlySent) : NewlySent[k][1] = "function_call_output"
          /\ isSessionActive' = isSessionActive]_vars

\* C10: from every reachable state (the never-started one included),
\* stopSession raises nothing, and a second stopSession right after it raises
\* nothing and leaves the handles, flags, status, logs, buffers and the
\* browser objects as the first call left them.
C10_StopIdempotent ==
  LET once == StopSessionOn(SessionState)
      twice == StopSessionOn(once)
  IN ~once.threw /\ ~twice.threw /\ twice = once

\* C10 witness: stopSession was called twice in a row after a session had
\* been started.
C10_Witness ==
  /\ lastOp.op = "stop" /\ lastOp.info = "again"
  /\ Len(call) >= 1

\* a step in which stopSession ran to its end
TeardownStep == StopStep \/ FailedStartStep

\* C11, as claimed: after stopSession the two logs and the buffer are empty,
\* the ephemeral-id reference is null, the volume is 0, the active flag is
\* false and the status is its initial value, the empty string.
C11_Original ==
  [][TeardownStep =>
       /\ conversation' = <<>> /\ msgs' = <<>>
       /\ ephemeralUserMessageIdRef' = NULL /\ audioChunksRef' = <<>>
       /\ currentVolume' = 0 /\ isSessionActive' = FALSE
       /\ status' = ""]_vars

\* C11, amended: after stopSession the two logs and the buffer are empty, the
\* ephemeral-id reference is null, the volume is 0, the active flag is false
\* and the status is "Session stopped".
C11_StateReset ==
  [][TeardownStep =>
       /\ conversation' = <<>> /\ msgs' = <<>>
       /\ ephemeralUserMessageIdRef' = NULL /\ audioChunksRef' = <<>>
       /\ currentVolume' = 0 /\ isSessionActive' = FALSE
       /\ status' = "Session stopped"]_vars

\* C11 witness: stopSession ran on a session that had sent its configuration
\* and logged an entry.
C11_Witness ==
  /\ lastOp.op = "stop" /\ nextId > 1
  /\ Len(call) >= 1 /\ Len(sent[1]) >= 2
  /\ conversation = <<>> /\ status = "Session stopped"

\* C12, as claimed: after stopSession the mic-muted flag is false, and
\* whenever the hook holds a local stream, isMicMuted is the negation of the
\* enabled flag of its audio track.
C12_MutedReset ==
  /\ [][TeardownStep => isMicMuted' = FALSE]_vars
  /\ [](audioStreamRef # NULL => isMicMuted = ~trackEnabled[audioStreamRef])

\* the objects startSession call c created are all released
Released(c) ==
  /\ chan'[c] \in {"none", "closed"}
  /\ conn'[c] \in {"none", "closed"}
  /\ ctx'[c] \in {"none", "closed"}
  /\ inboundCtx'[c] \in {"none", "closed"}
  /\ stream'[c] \in {"none", "stopped"}
  /\ rec'[c] # "recording"

\* C13, as claimed, for a hook on which startSession was called once: after
\* stopSession the channel and the connection are closed, the local audio
\* context and the one the inbound-track callback created are closed, the
\* tracks are stopped and the recorder is not recording.
C13_ResourcesReleased ==
  [][(TeardownStep /\ Len(call) = 1) => Released(1)]_vars

\* C14, as claimed: when the close() of one resource throws, stopSession
\* still returns normally, releases every other resource the hook holds and
\* resets the session state.
C14_TeardownNeverThrows ==
  [][lastOp'.op = "stop_fault" =>
       /\ lastOp'.info = "returned"
       /\ \A c \in Calls :
            /\ lastOp'.arg # "channel" => chan'[c] \in {"none", "closed"}
            /\ lastOp'.arg # "connection" => conn'[c] \in {"none", "closed"}
            /\ lastOp'.arg # "context" => ctx'[c] \in {"none", "closed"}
            /\ stream'[c] \in {"none", "stopped"}
            /\ rec'[c] # "recording"
       /\ isSessionActive' = FALSE
       /\ conversation' = <<>> /\ msgs' = <<>>
       /\ audioChunksRef' = <<>> /\ ephemeralUserMessageIdRef' = NULL]_vars

\* C15: when a step of startSession fails, the call returns without raising,
\* and after it the active flag is false and the connection, channel, stream
\* and recorder handles are null.
C15_FailedStartTornDown ==
  [][FailedStartStep =>
       /\ lastOp'.arg = "returned"
       /\ isSessionActive' = FALSE
       /\ peerConnectionRef' = NULL /\ dataChannelRef' = NULL
       /\ audioStreamRef' = NULL /\ mediaRecorderRef' = NULL]_vars

\* C15 witness: a startSession call failed in the negotiation, and the
\* connection, the channel and the stream it had created were released.
C15_Witness ==
  /\ lastOp.op = "start" /\ lastOp.info = "failed"
  /\ \E c \in Calls :
       /\ call[c] = "failed"
       /\ conn[c] = "closed" /\ chan[c] = "closed" /\ stream[c] = "stopped"

\* C16, as claimed: after a startSession call failed, the status is the error
\* status of that failure.
C16_ErrorStatusKept == [][FailedStartStep => status' = "Error"]_vars

\* C17, as claimed: every open connection, open or connecting channel, live
\* stream and running recorder is the one the hook's handle names, so there
\* is at most one of each.
C17_SingleSession ==
  \A c \in Calls :
    /\ conn[c] = "open" => peerConnectionRef = c
    /\ chan[c] \in {"connecting", "open"} => dataChannelRef = c
    /\ stream[c] = "live" => audioStreamRef = c
    /\ rec[c] = "recording" => mediaRecorderRef = c

\* the suspended handler k settles in this step, after stopSession ended the
\* session it was called in: the channel the hook held then has been closed
StaleToolSettles(k) ==
  /\ pendingTools' = RemoveAt(pendingTools, k)
  /\ pendingTools[k].channel # NULL
  /\ chan[pendingTools[k].channel] = "closed"

\* C18, as claimed, for tool handlers: a handler that settles after the
\* session it was called in was stopped changes no conversation entry,
\* neither the ephemeral-id reference nor the chunk buffer, and sends nothing.
C18_StaleResultsIgnored ==
  [][\A k \in 1..Len(pendingTools) :
       StaleToolSettles(k) =>
         /\ sent' = sent
         /\ conversation' = conversation
         /\ ephemeralUserMessageIdRef' = ephemeralUserMessageIdRef
         /\ audioChunksRef' = audioChunksRef]_vars

\* a side-channel message was delivered to handleDataChannelMessage, and its
\* handling is not suspended at an await
HandledMessageStep ==
  /\ budget' = budget - 1
  /\ \/ lastOp'.op \in {"speech_started", "speech_stopped", "delta", "done",
                        "ignored", "unparsable"}
     \/ lastOp'.op = "tool" /\ lastOp'.info # "suspended"

\* C19, as claimed: every message delivered to the handler is appended to the
\* raw message log, whatever its tag and the outcome of handling it.
C19_EveryMessageLogged ==
  [][HandledMessageStep => Len(msgs') = Len(msgs) + 1]_vars

\* the suspended handler k settles in this step and its reply is sent
ToolReplies(k) ==
  /\ pendingTools' = RemoveAt(pendingTools, k)
  /\ sent' # sent

\* C20, as claimed, for a function call whose handler is asynchronous: its
\* reply is sent before any later message is handled, so no assistant delta
\* (the only step of SpecTools that draws a fresh uuid) has been handled
\* between the arrival of the call and the reply.
C20_ArrivalOrder ==
  [][\A k \in 1..Len(pendingTools) :
       ToolReplies(k) => nextId = pendingTools[k].seen]_vars

\* the log entry the ephemeral-id reference names
EphemeralEntries(conv, ref) == {i \in 1..Len(conv) : conv[i].id = ref}

TranscribedStep == lastOp'.op = "transcribed"

\* the strings a transcription can return
Returned == Transcripts \cup {NoSpeech, Failed}

\* C21: within one speech turn (speech_started, chunks, speech_stopped with
\* the recorder recording, no other timer or request pending) the steps come
\* in this order: the flush request and the timer at speech_stopped; at the
\* expiry of the timer the consolidation of the buffer and the transcription
\* request for it; when the request returns the ephemeral entry becomes final
\* with the transcript, the reference is cleared, and conversation.item.create
\* with the transcript, then response.create, are sent. Until the request
\* returns the entry stays "processing" and nothing of the turn is sent.
C21_TurnOrder ==
  /\ [](turn.phase = "stopped" =>
          /\ timers = 1 /\ pendingTx = <<>>
          /\ ephemeralUserMessageIdRef # NULL
          /\ \A i \in EphemeralEntries(conversation, ephemeralUserMessageIdRef) :
               conversation[i].status = "processing")
  /\ [](turn.phase = "fired" =>
          /\ timers = 0 /\ pendingTx = <<Consolidate(turn.chunks)>>
          /\ ephemeralUserMessageIdRef # NULL
          /\ \A i \in EphemeralEntries(conversation, ephemeralUserMessageIdRef) :
               conversation[i].status = "processing")
  /\ [][/\ timers' > timers => (lastOp'.op = "speech_stopped" /\ RecorderRecording)
        /\ pendingTx' # pendingTx =>
             \/ timers' = timers - 1 /\ pendingTx' = Append(pendingTx, audioChunksRef)
             \/ TranscribedStep
        /\ (turn.phase \in {"stopped", "fired"} /\ ~TranscribedStep) =>
             sent'[dataChannelRef] \in {sent[dataChannelRef],
                                        sent[dataChannelRef] \o
                                          <<ItemCreate(lastOp'.arg), ResponseCreate>>}
        /\ (turn.phase \in {"stopped", "fired"} /\ sent' # sent /\ ~TranscribedStep) =>
             lastOp'.op = "send_text"
        /\ (turn.phase = "fired" /\ TranscribedStep) =>
             \E t \in Returned :
               /\ EphemeralEntries(conversation, ephemeralUserMessageIdRef) # {}
               /\ \A i \in EphemeralEntries(conversation, ephemeralUserMessageIdRef) :
                    /\ conversation'[i].status = "final"
                    /\ conversation'[i].isFinal
                    /\ conversation'[i].text = <<t>>
               /\ ephemeralUserMessageIdRef' = NULL
               /\ sent' = [sent EXCEPT ![dataChannelRef] =
                                 @ \o <<ItemCreate(t), ResponseCreate>>]
               /\ pendingTx' = <<>>]_vars

\* C21 witness: the transcription of a turn returned and the two messages of
\* the turn are the last two sent.
C21_Witness ==
  /\ lastOp.op = "transcribed" /\ lastOp.info = "text"
  /\ dataChannelRef # NULL
  /\ Len(sent[dataChannelRef]) >= 2
  /\ sent[dataChannelRef][Len(sent[dataChannelRef])] = ResponseCreate
  /\ sent[dataChannelRef][Len(sent[dataChannelRef]) - 1] \in {ItemCreate(t) : t \in Transcripts}
  /\ ephemeralUserMessageIdRef = NULL
  /\ \E i \in 1..Len(conversation) :
       conversation[i].role = "user" /\ conversation[i].text \in {<<t>> : t \in Transcripts}

\* C22: consolidation drains the buffer: when a transcription request has
\* just been issued the audio-chunk buffer is empty, and the return of a
\* transcription leaves the buffer as it is, so a chunk that arrived while
\* the request was in flight is still there afterwards.
C22_ConsolidationDrains ==
  /\ []((lastOp.op = "settle" /\ lastOp.info = "request") => audioChunksRef = <<>>)
  /\ [][TranscribedStep => audioChunksRef' = audioChunksRef]_vars

\* C22, second half alone: the return of a transcription discards no chunk
\* that arrived after the request was issued.
C22_InFlightChunkKept ==
  [][TranscribedStep =>
       \A i \in 1..Len(audioChunksRef) :
         (\A k \in 1..Len(pendingTx) : \A j \in 1..Len(pendingTx[k]) :
            pendingTx[k][j] # audioChunksRef[i])
         => \E i2 \in 1..Len(audioChunksRef') : audioChunksRef'[i2] = audioChunksRef[i]]_vars

\* the ids an entry of the log can have under SpecLive
EntryIds == 1..(LiveInputs + 1)

\* C23: every speech_stopped that arrives while the reference names an entry
\* is eventually followed, once the timer fired and the request returned, by
\* a state in which that entry is final (status "final", isFinal true) and
\* the reference is cleared.
C23_StoppedTurnFinishes ==
  \A id \in EntryIds :
    (lastOp.op = "speech_stopped" /\ ephemeralUserMessageIdRef = id)
      ~> (/\ ephemeralUserMessageIdRef = NULL
          /\ \A i \in EphemeralEntries(conversation, id) :
               conversation[i].status = "final" /\ conversation[i].isFinal)

\* the outcomes of a transcription request that carry no transcript
FailedOutcomes == TxOutcomes \ {"text"}

\* C24: when the transcription request of a turn fails, returns a non-success
\* status or returns no text, the ephemeral entry of the turn becomes final
\* with one of the two sentinel strings as its text, the reference is
\* cleared, the same sentinel goes out as the user's message, and the status,
\* the active flag, the mute flag and every handle and browser object of the
\* session are unchanged.
C24_FailureNotFatal ==
  [][(TranscribedStep /\ lastOp'.info \in FailedOutcomes /\ turn.phase = "fired") =>
       \E s \in {NoSpeech, Failed} :
         /\ EphemeralEntries(conversation, ephemeralUserMessageIdRef) # {}
         /\ \A i \in EphemeralEntries(conversation, ephemeralUserMessageIdRef) :
              /\ conversation'[i].text = <<s>>
              /\ conversation'[i].status = "final" /\ conversation'[i].isFinal
         /\ ephemeralUserMessageIdRef' = NULL
         /\ sent' = SendTwo(dataChannelRef, ItemCreate(s), ResponseCreate)
         /\ isSessionActive' = isSessionActive /\ status' = status
         /\ isMicMuted' = isMicMuted
         /\ UNCHANGED <<audioContextRef, audioStreamRef, peerConnectionRef,
                        dataChannelRef, mediaRecorderRef>>
         /\ UNCHANGED <<stream, trackEnabled, ctx, conn, chan, rec>>]_vars

\* C24 witness: a turn whose request failed was followed by a turn whose
\* request returned a transcript: the log holds the final sentinel entry and,
\* after it, the final entry of the next turn.
C24_Witness ==
  /\ lastOp.op = "transcribed" /\ lastOp.info = "text"
  /\ isSessionActive
  /\ \E i, j \in 1..Len(conversation) :
       /\ i < j
       /\ conversation[i].role = "user" /\ conversation[i].text = <<Failed>>
       /\ conversation[i].isFinal
       /\ conversation[j].role = "user" /\ conversation[j].status = "final"
       /\ conversation[j].text \in {<<t>> : t \in Transcripts}
       /\ conversation[j].id # conversation[i].id

IgnoredStep == lastOp'.op = "ignored"

\* C25: an audio-committed event, a native partial or final transcription
\* event and a message with an unrecognized tag are appended to the raw
\* message log and change nothing else: not the conversation log, the
\* ephemeral-id reference, the audio-chunk buffer, the status or the session
\* flags, and nothing is sent.
C25_IgnoredOnlyLogged ==
  [][IgnoredStep =>
       /\ msgs' = Append(msgs, <<lastOp'.info>>)
       /\ UNCHANGED <<conversation, ephemeralUserMessageIdRef, audioChunksRef>>
       /\ UNCHANGED <<status, isSessionActive, isMicMuted>>
       /\ sent' = sent
       /\ pendingTx' = pendingTx /\ timers' = timers]_vars

\* C25 witness: a message with an unrecognized tag was handled in the middle
\* of a speech turn, with an ephemeral entry and a chunk in the buffer.
C25_Witness ==
  /\ lastOp.op = "ignored" /\ lastOp.info = "session.created"
  /\ ephemeralUserMessageIdRef # NULL
  /\ audioChunksRef # <<>>
  /\ Last(msgs) = <<"session.created">>

NonFinalUsers(conv) == {i \in 1..Len(conv) : conv[i].role = "user" /\ ~conv[i].isFinal}

\* C26: in every reachable state, if the ephemeral-id reference is set then
\* exactly one entry of the conversation log has that id, and it is a user
\* entry; and the log holds at most one user entry that is not final.
C26_EphemeralUnique ==
  /\ ephemeralUserMessageIdRef # NULL =>
       /\ Cardinality(EphemeralEntries(conversation, ephemeralUserMessageIdRef)) = 1
       /\ \A i \in EphemeralEntries(conversation, ephemeralUserMessageIdRef) :
            conversation[i].role = "user"
  /\ Cardinality(NonFinalUsers(conversation)) <= 1

\* C26 witness: a second turn is open on its own entry, after the final entry
\* of a first turn and an assistant entry.
C26_Witness ==
  /\ ephemeralUserMessageIdRef # NULL
  /\ Cardinality(NonFinalUsers(conversation)) = 1
  /\ \E i, j \in 1..Len(conversation) :
       /\ i < j
       /\ conversation[i].role = "user" /\ conversation[i].status = "final"
       /\ conversation[j].id = ephemeralUserMessageIdRef
       /\ conversation[j].status = "processing"

SpeechStartedStep == lastOp'.op = "speech_started"

\* C27: speech_started with the reference set appends nothing: the log keeps
\* its length, the reference is unchanged, the entry it names gets status
\* "speaking" and the text "Listening...", every other entry is untouched and
\* the buffer is emptied. speech_started with the reference null appends
\* exactly one entry, a non-final user entry with a fresh id, status
\* "speaking" and the text "Listening...", sets the reference to that id and
\* empties the buffer.
C27_SpeechStarted ==
  [][SpeechStartedStep =>
       /\ audioChunksRef' = <<>>
       /\ IF ephemeralUserMessageIdRef # NULL
          THEN /\ Len(conversation') = Len(conversation)
               /\ ephemeralUserMessageIdRef' = ephemeralUserMessageIdRef
               /\ \A i \in 1..Len(conversation) :
                    IF conversation[i].id = ephemeralUserMessageIdRef
                    THEN /\ conversation'[i].status = "speaking"
                         /\ conversation'[i].text = <<"Listening...">>
                         /\ conversation'[i].id = conversation[i].id
                         /\ conversation'[i].role = conversation[i].role
                         /\ conversation'[i].isFinal = conversation[i].isFinal
                    ELSE conversation'[i] = conversation[i]
          ELSE /\ Len(conversation') = Len(conversation) + 1
               /\ IsPrefix(conversation, conversation')
               /\ Last(conversation').role = "user"
               /\ ~Last(conversation').isFinal
               /\ Last(conversation').status = "speaking"
               /\ Last(conversation').text = <<"Listening...">>
               /\ \A i \in 1..Len(conversation) :
                    conversation[i].id # Last(conversation').id
               /\ ephemeralUserMessageIdRef' = Last(conversation').id]_vars

\* C27 witness: speech_started arrived while the reference was set and chunks
\* of the turn before were buffered: the entry is "speaking" again and the
\* buffer is empty.
C27_Witness ==
  /\ lastOp.op = "speech_started" /\ lastOp.info = "reused"
  /\ nextChunk > 1
  /\ audioChunksRef = <<>>
  /\ \E i \in 1..Len(conversation) :
       /\ conversation[i].id = ephemeralUserMessageIdRef
       /\ conversation[i].status = "speaking"
  /\ timers > 0

\* a step in which the handler of the registered tool returned normally
ToolReturnedStep ==
  /\ lastOp'.op = "tool" /\ lastOp'.arg = RegisteredTool
  /\ lastOp'.info \in {"replied", "no_channel", "send_threw"}

\* the call_id of the event whose handler returned in this step
EventCallIds ==
  IF pendingTools' # pendingTools
  THEN {pendingTools[k].msg[3] : k \in {j \in 1..Len(pendingTools) :
                                          pendingTools' = RemoveAt(pendingTools, j)}}
  ELSE {id \in CallIds : msgs' # msgs /\ Last(msgs')[3] = id}

\* in every outbound stream a function_call_output is directly followed by a
\* response.create
OutputsPaired ==
  \A c \in Calls : \A i \in 1..Len(sent[c]) :
    sent[c][i][1] = "function_call_output" =>
      (i < Len(sent[c]) /\ sent[c][i + 1] = ResponseCreate)

\* the message the claim expects for the event with call_id id: the tag, the
\* call_id and JSON.stringify of the handler's result
ExpectedOutput(id) == <<"function_call_output", id, <<"json", "result">>>>

\* C28, as claimed: whenever the handler of a registered tool returns
\* normally, exactly one function_call_output with the call_id of the event
\* and the serialized result is sent, directly followed by one
\* response.create; and in every outbound stream every function_call_output
\* is directly followed by a response.create.
C28_Original ==
  /\ [][ToolReturnedStep =>
          \E c \in Calls, id \in EventCallIds :
            sent' = [sent EXCEPT ![c] = @ \o <<ExpectedOutput(id), ResponseCreate>>]]_vars
  /\ []OutputsPaired

\* C28, amended: the two messages are sent if the hook holds a channel when
\* the handler returns and that channel is open, and on that channel; if it
\* holds none, or one that is not open, nothing is sent. The pairing holds in
\* every outbound stream, also with several calls in flight at once.
C28_PairedReplies ==
  /\ [][ToolReturnedStep =>
          IF ChannelReady(dataChannelRef)
          THEN \E id \in EventCallIds :
                 sent' = [sent EXCEPT ![dataChannelRef] =
                            @ \o <<ExpectedOutput(id), ResponseCreate>>]
          ELSE sent' = sent]_vars
  /\ []OutputsPaired

\* C28 witness: the reply to one call was sent while a call with the other
\* call_id was still in flight.
C28_Witness ==
  /\ lastOp.op = "tool" /\ lastOp.info = "replied" /\ lastOp.arg = RegisteredTool
  /\ dataChannelRef # NULL
  /\ Len(pendingTools) >= 1
  /\ LET out == sent[dataChannelRef]
     IN /\ Len(out) >= 2
        /\ out[Len(out)] = ResponseCreate
        /\ out[Len(out) - 1][1] = "function_call_output"
        /\ out[Len(out) - 1][2] # pendingTools[1].msg[3]
        /\ pendingTools[1].seen < nextId

\* C29: right after response.audio_transcript.done was handled no assistant
\* entry of the log is non-final, whatever was appended to the log between
\* the last delta and the done event.
C29_DoneFinalizesAssistant ==
  lastOp.op = "done" =>
    \A i \in 1..Len(conversation) : ~NonFinalAssistant(conversation[i])

SessionUpdates(out) == {i \in 1..Len(out) : out[i] = <<"session.update">>}

\* C30: on every data channel exactly one session.update is sent when the
\* channel opens, and it is the first message sent on that channel: before
\* the channel opened nothing was sent on it, and whatever a channel carries
\* starts with its one session.update.
C30_SessionUpdateFirst ==
  /\ [](\A c \in DOMAIN sent :
          (sent[c] # <<>> \/ chan[c] = "open") =>
            /\ Len(sent[c]) >= 1
            /\ sent[c][1] = <<"session.update">>
            /\ Cardinality(SessionUpdates(sent[c])) = 1)
  /\ [][\A c \in DOMAIN chan :
          (chan[c] # "open" /\ chan'[c] = "open") =>
            /\ sent[c] = <<>>
            /\ Len(sent'[c]) >= 1 /\ sent'[c][1] = <<"session.update">>]_vars

\* C30 witness: the channel of a second session opened, after a tool call of
\* the first session was suspended.
C30_Witness ==
  /\ lastOp.op = "open"
  /\ Len(sent) >= 2
  /\ chan[Len(chan)] = "open"
  /\ sent[Len(sent)][1] = <<"session.update">>
  /\ sent[1] # <<>>

\* the volume-sampling intervals (window.setInterval of pc.ontrack) that run
VolumeTimers == {c \in DOMAIN interval : interval[c] = "running"}

\* C31, for the volume-sampling timer: at any time at most one is running,
\* and after stopSession ran none is.
C31_OneVolumeTimer ==
  /\ [](Cardinality(VolumeTimers) <= 1)
  /\ [][TeardownStep => VolumeTimers' = {}]_vars

\* C31, second half alone: after stopSession ran no volume-sampling timer is
\* running.
C31_NoTimerAfterStop == [][StopStep => VolumeTimers' = {}]_vars

\* C32: whenever the speech-stopped flow sends conversation.item.create with
\* a transcript, the log then holds a final user entry whose text is that
\* transcript.
C32_LogAgreesWithRemote ==
  [][(lastOp'.op \in {"transcribed", "settle"} /\ sent' # sent) =>
       \E t \in Returned :
         /\ sent'[dataChannelRef] =
              sent[dataChannelRef] \o <<<<"conversation.item.create", t>>,
                                        <<"response.create">>>>
         /\ \E i \in 1..Len(conversation') :
              /\ conversation'[i].role = "user"
              /\ conversation'[i].isFinal
              /\ conversation'[i].text = <<t>>]_vars

\* the chunks of the transcription request k in flight
ChunksOf(k) == {pendingTx[k][j] : j \in 1..Len(pendingTx[k])}

\* C33: no audio chunk is part of more than one transcription request, and a
\* step issues at most one request.
C33_ChunkRequestedOnce ==
  /\ [](\A k1, k2 \in 1..Len(pendingTx) :
          k1 # k2 => ChunksOf(k1) \cap ChunksOf(k2) = {})
  /\ [][Len(pendingTx') <= Len(pendingTx) + 1]_vars

\* C34, for a hook on which startSession was called once: if stopSession ran
\* while that call was suspended at one of its awaits, then once the call has
\* finished the active flag is false and the connection, the channel, the
\* recorder, the stream and the volume timer the call created are not open,
\* live or running.
C34_StopWins ==
  (Len(call) = 1 /\ 1 \in stoppedWhile /\ call[1] \notin Awaiting) =>
    /\ ~isSessionActive
    /\ conn[1] # "open"
    /\ chan[1] \notin {"connecting", "open"}
    /\ rec[1] # "recording"
    /\ stream[1] # "live"
    /\ interval[1] # "running"

\* the temp files request r wrote
FilesOf(r) == files \cap {OriginalPath(r), ConvertedPath(r)}

\* C35: when a POST has returned its response, neither the temp file of the
\* upload nor the converted file exists any more, whatever the conversion and
\* the transcription command did; and a request rejected for the missing API
\* key or the missing audio field has created no file.
C35_NoTempFileLeft ==
  \A r \in Requests : req[r].pc = "done" => FilesOf(r) = {}

\* C35 for one outcome: a POST that answers "Groq API transcription failed"
\* (the transcription command failed or returned an empty or unparsable body)
\* leaves the file of the upload deleted.
C35_FailedCommandCleansUp ==
  \A r \in Requests :
    (req[r].pc = "done" /\ req[r].response.error = "Groq API transcription failed") =>
      OriginalPath(r) \notin files

====
